---- MODULE Spec2Model ----
(***************************************************************************)
(* Task Recorder (src/src/main.rs): the control thread (eframe update      *)
(* loop: task-name field, "Create Task", "Stop Task"), the listener        *)
(* threads spawned by start_recording, the shared Arc<Mutex<Vec<EventData>>>*)
(* and the CSV export of save_to_csv.                                      *)
(*                                                                         *)
(* Granularity: one step per statement that another thread can observe     *)
(* (a mutex acquisition, a push, a file operation, a field assignment).    *)
(* Variables whose comment says "history" are not program state: they      *)
(* record when something happened, so that the properties can speak about  *)
(* sessions and deliveries.  No program variable is computed from them;    *)
(* the only guards that read them are the bounds of the run.               *)
(***************************************************************************)
EXTENDS Integers, Sequences, FiniteSets, TLC

\* ---------------------------------------------------------------- bounds
MaxEvents == 1      \* raw notifications the OS emits in one run
MaxStarts == 2      \* accepted starts (= listener threads spawned) in one run
MaxStops == 2       \* "Stop Task" clicks in one run
MaxClock == 1       \* Local::now() returns a second in 0..MaxClock

\* ------------------------------------------------------------- constants
Free == 0           \* the mutex is held by nobody
Ctl == -1           \* the mutex is held by the control thread (listeners are 1..)

TaskNames == {"", "a", "b"}

\* rdev::Key / rdev::Button values, by variant
Keys == {[variant |-> "KeyA"]}
Buttons == {[variant |-> "Left"]}
Coords == {<<10, 20>>}

\* rdev::EventType values delivered to the listen callback
RawEvents ==
    {[type |-> "KeyPress", key |-> k] : k \in Keys}
    \cup {[type |-> "KeyRelease", key |-> k] : k \in Keys}
    \cup {[type |-> "ButtonPress", button |-> b] : b \in Buttons}
    \cup {[type |-> "ButtonRelease", button |-> b] : b \in Buttons}
    \cup {[type |-> "MouseMove", x |-> c[1], y |-> c[2]] : c \in Coords}
    \cup {[type |-> "Wheel"]}

\* the notifications the operating system emits in the runs explored: one key
\* notification, one pointer notification, one of a kind that is not recorded
OsEvents ==
    {[type |-> "KeyPress", key |-> k] : k \in Keys}
    \cup {[type |-> "MouseMove", x |-> c[1], y |-> c[2]] : c \in Coords}
    \cup {[type |-> "Wheel"]}

\* -------------------------------------------------------- pure functions
\* format!("{:?}", key): the derived Debug of a fieldless variant is its name,
\* of Unknown(n) it is "Unknown(n)"
DebugFmt(v) ==
    IF v.variant = "Unknown"
    THEN "Unknown(" \o ToString(v.code) \o ")"
    ELSE v.variant

\* Local::now().format("%Y-%m-%d %H:%M:%S"): the clock counts seconds
FormatTime(t) == "2024-01-01 10:00:0" \o ToString(t)

None == [some |-> FALSE]
Some(d) == [some |-> TRUE, val |-> d]

EventData(et, bk, ac, po, ts) ==
    [event_type |-> et, button_or_key |-> bk, action |-> ac,
     position |-> po, timestamp |-> ts]

\* mutant: the pointer position is rendered with its coordinates exchanged
M_process_event(event, clock) ==
    LET timestamp == FormatTime(clock) IN
    CASE event.type = "KeyPress" ->
           Some(EventData("Keyboard", DebugFmt(event.key), "Pressed", "N/A", timestamp))
      [] event.type = "KeyRelease" ->
           Some(EventData("Keyboard", DebugFmt(event.key), "Released", "N/A", timestamp))
      [] event.type = "ButtonPress" ->
           Some(EventData("Mouse", DebugFmt(event.button), "Pressed", "N/A", timestamp))
      [] event.type = "ButtonRelease" ->
           Some(EventData("Mouse", DebugFmt(event.button), "Released", "N/A", timestamp))
      [] event.type = "MouseMove" ->
           Some(EventData("Mouse", "Move", "Moved",
                          "(" \o ToString(event.y) \o ", " \o ToString(event.x) \o ")",
                          timestamp))
      [] OTHER -> None

process_event(event, clock) ==
    LET timestamp == FormatTime(clock) IN
    CASE event.type = "KeyPress" ->
           Some(EventData("Keyboard", DebugFmt(event.key), "Pressed", "N/A", timestamp))
      [] event.type = "KeyRelease" ->
           Some(EventData("Keyboard", DebugFmt(event.key), "Released", "N/A", timestamp))
      [] event.type = "ButtonPress" ->
           Some(EventData("Mouse", DebugFmt(event.button), "Pressed", "N/A", timestamp))
      [] event.type = "ButtonRelease" ->
           Some(EventData("Mouse", DebugFmt(event.button), "Released", "N/A", timestamp))
      [] event.type = "MouseMove" ->
           Some(EventData("Mouse", "Move", "Moved",
                          "(" \o ToString(event.x) \o ", " \o ToString(event.y) \o ")",
                          timestamp))
      [] OTHER -> None

\* format!("{}_events.csv", self.task_name)
Filename(name) == name \o "_events.csv"

Header == "Event Type,Button/Key,Action,Position,Timestamp"

\* mutant: the identifier is written without its parentheses
M_Line(e) ==
    e.event_type \o "," \o e.button_or_key \o "," \o e.action \o ","
        \o e.position \o "," \o e.timestamp

\* writeln!(file, "{},({}),{},{},{}", ...), without the newline
Line(e) ==
    e.event_type \o ",(" \o e.button_or_key \o ")," \o e.action \o ","
        \o e.position \o "," \o e.timestamp

FileNames == {Filename(n) : n \in TaskNames}

\* the values Local::now() can return; local wall-clock time is not monotonic
Times == 0..MaxClock

\* ----------------------------------------------------------------- state
VARIABLES
    task_name,      \* TaskRecorderApp.task_name
    is_recording,   \* TaskRecorderApp.is_recording
    events,         \* the Vec<EventData> inside the mutex
    lock,           \* the mutex: Free, Ctl or the listener holding it
    pc,             \* position of the control thread
    filename,       \* save_to_csv's local
    idx,            \* save_to_csv: index of the next record of events.iter()
    notice,         \* the label the last frame showed besides "Recording..."
    listeners,      \* the spawned listener threads, in spawn order
    fs,             \* the working directory: file name -> contents
    emitted,        \* history: how many notifications the OS has emitted
    etags,          \* history: for each record of events, its delivery tag
    hist            \* history: sessions, calls and names

vars == <<task_name, is_recording, events, lock, pc, filename, idx, notice,
          listeners, fs, emitted, etags, hist>>

NoFile == [exists |-> FALSE, lines |-> <<>>]

Init ==
    /\ task_name = ""
    /\ is_recording = FALSE
    /\ events = <<>>
    /\ lock = Free
    /\ pc = "ui"
    /\ filename = ""
    /\ idx = 0
    /\ notice = ""
    /\ listeners = <<>>
    /\ fs = [f \in FileNames |-> NoFile]
    /\ emitted = 0
    /\ etags = <<>>
    /\ hist = [sessions |-> 0, stops |-> 0, lastCall |-> "none", reentrant |-> FALSE,
               stopIdle |-> FALSE, sessName |-> "", newName |-> FALSE,
               dropped |-> {}]

\* ------------------------------------------------ control thread: the form
\* ui.text_edit_singleline(&mut self.task_name): the operator edits the name
SetTaskName(n) ==
    /\ pc = "ui"
    /\ n # task_name
    /\ task_name' = n
    /\ notice' = ""
    /\ UNCHANGED <<is_recording, events, lock, pc, filename, idx, listeners, fs,
                   emitted, etags, hist>>

\* ------------------------------------- control thread: start_recording
\* lines 59-61: self.is_recording = true
start_recording ==
    /\ Len(listeners) < MaxStarts
    /\ is_recording' = TRUE
    /\ pc' = "clear"
    /\ notice' = ""
    /\ hist' = [hist EXCEPT !.sessions = @ + 1, !.lastCall = "start",
                            !.reentrant = @ \/ is_recording,
                            !.sessName = task_name,
                            !.newName = (task_name # hist.sessName)]
    /\ UNCHANGED <<task_name, events, lock, filename, idx, listeners, fs,
                   emitted, etags>>

\* lines 185-187: the empty name is refused and a label is shown
RejectEmptyName ==
    /\ notice' = "Please enter a task name."
    /\ UNCHANGED <<task_name, is_recording, events, lock, pc, filename, idx,
                   listeners, fs, emitted, etags, hist>>

\* mutant: the click starts a session without looking at the name
M_CreateTaskClicked ==
    /\ pc = "ui"
    /\ start_recording

\* lines 184-191: "Create Task" clicked
CreateTaskClicked ==
    /\ pc = "ui"
    /\ IF task_name = "" THEN RejectEmptyName ELSE start_recording

\* line 62, first half: self.events.lock().unwrap()
ClearLock ==
    /\ pc = "clear"
    /\ lock = Free
    /\ lock' = Ctl
    /\ pc' = "cleared"
    /\ UNCHANGED <<task_name, is_recording, events, filename, idx, notice,
                   listeners, fs, emitted, etags, hist>>

\* line 62, second half: .clear(), and the guard is dropped
\* mutant: a start made while recording keeps the records of the buffer
M_ClearBuffer ==
    /\ pc = "cleared"
    /\ events' = IF hist.reentrant THEN events ELSE <<>>
    /\ etags' = IF hist.reentrant THEN etags ELSE <<>>
    /\ lock' = Free
    /\ pc' = "spawn"
    /\ UNCHANGED <<task_name, is_recording, filename, idx, notice, listeners, fs,
                   emitted, hist>>

\* which record a tag stands for: the notification and the listener that
\* turned it into a record
RecordOf(tag) == [id |-> tag.id, by |-> tag.by]

ClearBuffer ==
    /\ pc = "cleared"
    /\ events' = <<>>
    /\ etags' = <<>>
    /\ lock' = Free
    /\ pc' = "spawn"
    /\ hist' = [hist EXCEPT !.dropped = @ \cup {RecordOf(etags[k]) : k \in DOMAIN etags}]
    /\ UNCHANGED <<task_name, is_recording, filename, idx, notice, listeners, fs,
                   emitted>>

NoTag == [id |-> 0, sess |-> 0, rec |-> FALSE, by |-> 0]

\* a thread that has not called listen yet: no notification queued for it, no
\* record in hand
NewListener == [st |-> "spawned", inbox |-> <<>>, data |-> None, tag |-> NoTag]

\* mutant: spawning a listener ends the ones already running
M_SpawnListener ==
    /\ pc = "spawn"
    /\ listeners' = Append([i \in DOMAIN listeners |->
                              [listeners[i] EXCEPT !.st = "exited", !.inbox = <<>>,
                                                   !.data = None, !.tag = NoTag]],
                           NewListener)
    /\ pc' = "ui"
    /\ UNCHANGED <<task_name, is_recording, events, lock, filename, idx, notice,
                   fs, emitted, etags, hist>>

\* lines 64-75: thread::spawn; start_recording returns
SpawnListener ==
    /\ pc = "spawn"
    /\ listeners' = Append(listeners, NewListener)
    /\ pc' = "ui"
    /\ UNCHANGED <<task_name, is_recording, events, lock, filename, idx, notice,
                   fs, emitted, etags, hist>>

\* ----------------------------------- control thread: stop_recording, export
\* mutant: stop_recording exports without resetting is_recording
M_StopTaskClicked ==
    /\ pc = "ui"
    /\ hist.stops < MaxStops
    /\ filename' = Filename(task_name)
    /\ pc' = "create"
    /\ notice' = ""
    /\ hist' = [hist EXCEPT !.lastCall = "stop", !.stopIdle = ~is_recording,
                            !.stops = @ + 1]
    /\ UNCHANGED <<task_name, is_recording, events, lock, idx, listeners, fs,
                   emitted, etags>>

\* lines 193-195, 78-81 and 85: "Stop Task" clicked; is_recording = false;
\* save_to_csv computes the file name from the current task_name
StopTaskClicked ==
    /\ pc = "ui"
    /\ hist.stops < MaxStops
    /\ is_recording' = FALSE
    /\ filename' = Filename(task_name)
    /\ pc' = "create"
    /\ notice' = ""
    /\ hist' = [hist EXCEPT !.lastCall = "stop", !.stopIdle = ~is_recording,
                            !.stops = @ + 1]
    /\ UNCHANGED <<task_name, events, lock, idx, listeners, fs, emitted, etags>>

\* save_to_csv returns: its locals are gone
Return ==
    /\ pc' = "ui"
    /\ filename' = ""
    /\ idx' = 0
    /\ hist' = [hist EXCEPT !.stopIdle = FALSE]

\* lines 88-94: File::create truncates or creates the file, or fails
FileCreate(ok) ==
    /\ pc = "create"
    /\ IF ok
       THEN /\ fs' = [fs EXCEPT ![filename] = [exists |-> TRUE, lines |-> <<>>]]
            /\ pc' = "lock"
            /\ UNCHANGED <<filename, idx, hist>>
       ELSE /\ Return
            /\ UNCHANGED fs
    /\ UNCHANGED <<task_name, is_recording, events, lock, notice, listeners,
                   emitted, etags>>

\* line 96: let events = self.events.lock().unwrap()
ExportLock ==
    /\ pc = "lock"
    /\ lock = Free
    /\ lock' = Ctl
    /\ pc' = "header"
    /\ UNCHANGED <<task_name, is_recording, events, filename, idx, notice,
                   listeners, fs, emitted, etags, hist>>

\* mutant: the failing header write returns with the guard still held
M_WriteHeader(ok) ==
    /\ pc = "header"
    /\ IF ok
       THEN /\ fs' = [fs EXCEPT ![filename].lines = Append(@, Header)]
            /\ idx' = 1
            /\ pc' = "lines"
            /\ UNCHANGED <<lock, filename, hist>>
       ELSE /\ Return
            /\ UNCHANGED <<fs, lock>>
    /\ UNCHANGED <<task_name, is_recording, events, notice, listeners, emitted,
                   etags>>

\* lines 97-100: the header line is written, or the write fails and the guard
\* is dropped by the return
WriteHeader(ok) ==
    /\ pc = "header"
    /\ IF ok
       THEN /\ fs' = [fs EXCEPT ![filename].lines = Append(@, Header)]
            /\ idx' = 1
            /\ pc' = "lines"
            /\ UNCHANGED <<lock, filename, hist>>
       ELSE /\ lock' = Free
            /\ Return
            /\ UNCHANGED fs
    /\ UNCHANGED <<task_name, is_recording, events, notice, listeners, emitted,
                   etags>>

\* mutant: a failing record write is logged and the loop goes on
M_WriteLine(ok) ==
    /\ pc = "lines"
    /\ idx <= Len(events)
    /\ fs' = IF ok THEN [fs EXCEPT ![filename].lines = Append(@, Line(events[idx]))]
                   ELSE fs
    /\ idx' = idx + 1
    /\ UNCHANGED <<task_name, is_recording, events, lock, pc, filename, notice,
                   listeners, emitted, etags, hist>>

\* lines 102-111: one iteration of for event in events.iter()
WriteLine(ok) ==
    /\ pc = "lines"
    /\ idx <= Len(events)
    /\ IF ok
       THEN /\ fs' = [fs EXCEPT ![filename].lines = Append(@, Line(events[idx]))]
            /\ idx' = idx + 1
            /\ UNCHANGED <<lock, pc, filename, hist>>
       ELSE /\ lock' = Free
            /\ Return
            /\ UNCHANGED fs
    /\ UNCHANGED <<task_name, is_recording, events, notice, listeners, emitted,
                   etags>>

\* mutant: stop_recording ends the listener threads before it returns
M_ExportDone ==
    /\ pc = "lines"
    /\ idx > Len(events)
    /\ lock' = Free
    /\ Return
    /\ listeners' = [i \in DOMAIN listeners |->
                       [listeners[i] EXCEPT !.st = "exited", !.inbox = <<>>,
                                            !.data = [some |-> FALSE]]]
    /\ UNCHANGED <<task_name, is_recording, events, notice, fs, emitted, etags>>

\* lines 113-114: the iterator is exhausted; the guard is dropped
ExportDone ==
    /\ pc = "lines"
    /\ idx > Len(events)
    /\ lock' = Free
    /\ Return
    /\ UNCHANGED <<task_name, is_recording, events, notice, listeners, fs,
                   emitted, etags>>

\* ------------------------------------------------------ listener threads
\* the listener threads a run can spawn; thread i exists once it is spawned
ThreadIds == 1..MaxStarts

Spawned(i) == i \in DOMAIN listeners

\* line 67: rdev::listen installs the hook; notifications emitted from now on
\* are queued for this thread's callback
ListenerSubscribe(i) ==
    /\ Spawned(i)
    /\ listeners[i].st = "spawned"
    /\ listeners' = [listeners EXCEPT ![i].st = "listening"]
    /\ UNCHANGED <<task_name, is_recording, events, lock, pc, filename, idx, notice,
                   fs, emitted, etags, hist>>

\* mutant: the thread calls listen again after an error
M_ListenerFail(i) ==
    /\ Spawned(i)
    /\ listeners[i].st = "listening"
    /\ listeners' = [listeners EXCEPT ![i].st = "spawned", ![i].inbox = <<>>]
    /\ UNCHANGED <<task_name, is_recording, events, lock, pc, filename, idx, notice,
                   fs, emitted, etags, hist>>

\* lines 67, 71-74: listen returns an error (at once, or between two
\* notifications); the error is logged and the thread ends
ListenerFail(i) ==
    /\ Spawned(i)
    /\ listeners[i].st \in {"spawned", "listening"}
    /\ listeners' = [listeners EXCEPT ![i].st = "exited", ![i].inbox = <<>>]
    /\ UNCHANGED <<task_name, is_recording, events, lock, pc, filename, idx, notice,
                   fs, emitted, etags, hist>>

\* line 68: the callback is invoked with the next notification and runs
\* process_event, which samples the clock
ListenerCallback(i, t) ==
    /\ Spawned(i)
    /\ listeners[i].st = "listening"
    /\ listeners[i].inbox # <<>>
    /\ LET n == Head(listeners[i].inbox)
           r == process_event(n.event, t)
           tag == [id |-> n.id, sess |-> hist.sessions, rec |-> is_recording, by |-> i]
       IN IF r.some
          THEN listeners' = [listeners EXCEPT ![i].st = "waiting",
                                              ![i].inbox = Tail(@),
                                              ![i].data = r,
                                              ![i].tag = tag]
          ELSE listeners' = [listeners EXCEPT ![i].inbox = Tail(@)]
    /\ UNCHANGED <<task_name, is_recording, events, lock, pc, filename, idx,
                   notice, fs, emitted, etags, hist>>

\* mutant: the listener pushes without waiting for the mutex
M_ListenerLock(i) ==
    /\ Spawned(i)
    /\ listeners[i].st = "waiting"
    /\ lock' = i
    /\ listeners' = [listeners EXCEPT ![i].st = "holding"]
    /\ UNCHANGED <<task_name, is_recording, events, pc, filename, idx, notice,
                   fs, emitted, etags, hist>>

\* line 69, first half: events.lock().unwrap()
ListenerLock(i) ==
    /\ Spawned(i)
    /\ listeners[i].st = "waiting"
    /\ lock = Free
    /\ lock' = i
    /\ listeners' = [listeners EXCEPT ![i].st = "holding"]
    /\ UNCHANGED <<task_name, is_recording, events, pc, filename, idx, notice,
                   fs, emitted, etags, hist>>

\* line 69, second half: .push(event_data); the guard is dropped and the
\* callback returns
ListenerPush(i) ==
    /\ Spawned(i)
    /\ listeners[i].st = "holding"
    /\ events' = Append(events, listeners[i].data.val)
    /\ etags' = Append(etags, listeners[i].tag)
    /\ lock' = Free
    /\ listeners' = [listeners EXCEPT ![i].st = "listening", ![i].data = None,
                                      ![i].tag = NoTag]
    /\ UNCHANGED <<task_name, is_recording, pc, filename, idx, notice, fs,
                   emitted, hist>>

\* ------------------------------------------------------------ environment
Hooked(l) == l.st \in {"listening", "waiting", "holding"}

\* the operating system emits a raw input notification: every installed hook
\* gets it, in emission order
OsEmit(e) ==
    /\ emitted < MaxEvents
    /\ emitted' = emitted + 1
    /\ listeners' = [i \in DOMAIN listeners |->
                       IF Hooked(listeners[i])
                       THEN [listeners[i] EXCEPT
                               !.inbox = Append(@, [event |-> e, id |-> emitted + 1])]
                       ELSE listeners[i]]
    /\ UNCHANGED <<task_name, is_recording, events, lock, pc, filename, idx, notice,
                   fs, etags, hist>>

Next ==
    \/ \E n \in TaskNames : SetTaskName(n)
    \/ CreateTaskClicked
    \/ ClearLock
    \/ ClearBuffer
    \/ SpawnListener
    \/ StopTaskClicked
    \/ \E ok \in BOOLEAN : FileCreate(ok)
    \/ ExportLock
    \/ \E ok \in BOOLEAN : WriteHeader(ok)
    \/ \E ok \in BOOLEAN : WriteLine(ok)
    \/ ExportDone
    \/ \E i \in ThreadIds : ListenerSubscribe(i)
    \/ \E i \in ThreadIds : ListenerFail(i)
    \/ \E i \in ThreadIds : \E t \in Times : ListenerCallback(i, t)
    \/ \E i \in ThreadIds : ListenerLock(i)
    \/ \E i \in ThreadIds : ListenerPush(i)
    \/ \E e \in OsEvents : OsEmit(e)

Spec == Init /\ [][Next]_vars

\* a step of the control thread inside a handler (the thread is runnable, or
\* blocked in lock())
ControlStep ==
    \/ ClearLock
    \/ ClearBuffer
    \/ SpawnListener
    \/ \E ok \in BOOLEAN : FileCreate(ok)
    \/ ExportLock
    \/ \E ok \in BOOLEAN : WriteHeader(ok)
    \/ \E ok \in BOOLEAN : WriteLine(ok)
    \/ ExportDone

\* the scheduling the threads run under: a thread that can take a step
\* eventually takes it (weak fairness on the steps inside a handler and on the
\* listener's push), and a thread blocked in lock() gets the mutex if it is
\* free again and again (strong fairness on the three acquisitions).  Clicks,
\* name edits, notifications and subscription failures are under no obligation.
Fairness ==
    /\ WF_vars(ControlStep)
    /\ SF_vars(ClearLock)
    /\ SF_vars(ExportLock)
    /\ \A i \in ThreadIds : WF_vars(ListenerPush(i)) /\ SF_vars(ListenerLock(i))

\* The program under that scheduling, with the inputs the mutex cannot tell
\* apart reduced to one of each: one task name, one clock reading.  Every
\* step of the two thread roles, the failing file operations and the failing
\* subscription are all there.
LockNext ==
    \/ SetTaskName("a")
    \/ CreateTaskClicked
    \/ StopTaskClicked
    \/ ControlStep
    \/ \E i \in ThreadIds : ListenerSubscribe(i)
    \/ \E i \in ThreadIds : ListenerFail(i)
    \/ \E i \in ThreadIds : ListenerCallback(i, 0)
    \/ \E i \in ThreadIds : ListenerLock(i)
    \/ \E i \in ThreadIds : ListenerPush(i)
    \/ \E e \in OsEvents : OsEmit(e)

FairSpec == Init /\ [][LockNext]_vars /\ Fairness

\* ------------------------------------------------------------ vocabulary
Live(i) == listeners[i].st # "exited"

LiveListeners == {i \in DOMAIN listeners : Live(i)}

\* the control thread is inside save_to_csv
InExport == pc \in {"create", "lock", "header", "lines"}

\* the control thread holds the buffer for the export (lines 96-114)
Exporting == pc \in {"header", "lines"}

\* every record of the buffer has been written: the export is complete
AllWritten == pc = "lines" /\ idx > Len(events)

\* what a complete export of the records es consists of
Rendered(es) == <<Header>> \o [k \in 1..Len(es) |-> Line(es[k])]

\* ------------------------------------------------------------------ claims
\* C1: every record in the buffer belongs to a notification delivered after
\* the most recent accepted start and before the stop that ended that session;
\* in particular nothing is appended after stop() until the next accepted start.
\* (The two positions of start_recording before its clear has taken effect are
\* left out: there the buffer still holds the previous session by design.)
C1_SessionContainment ==
    pc \notin {"clear", "cleared"}
      => \A k \in DOMAIN etags : etags[k].rec /\ etags[k].sess = hist.sessions

\* C2: stop() called while Idle is a no-op: it creates or overwrites no file,
\* does not read the buffer for export, and is_recording stays false.
C2_IdleStopIsNoOp ==
    [][(hist.stopIdle /\ InExport)
         => (fs' = fs /\ ~Exporting' /\ ~is_recording')]_vars

\* C3: a start request with an empty task name is rejected in every state: it
\* changes neither is_recording nor the buffer (nor its lock), spawns no
\* listener, and the control thread does not enter start_recording.
C3_EmptyNameRejected ==
    [][(task_name = "" /\ CreateTaskClicked)
         => (UNCHANGED <<is_recording, events, lock, listeners>> /\ pc' = "ui")]_vars

\* C3 witness: the rejection label is showing, the session that was running is
\* still recording, its one listener and its buffered record are untouched.
C3_Witness ==
    /\ notice = "Please enter a task name."
    /\ task_name = ""
    /\ is_recording
    /\ Len(events) = 1
    /\ Len(listeners) = 1

\* C4: when start is never called while is_recording is true, at most one
\* listener thread is live in every reachable state.
C4_AtMostOneListener ==
    ~hist.reentrant => Cardinality(LiveListeners) <= 1

\* C5: single session in a fresh process: when the export of the first stop is
\* complete, the file is the header followed by one line for each qualifying
\* notification delivered to the listener between start and stop, in OS
\* order: no line of a notification delivered outside that interval, and no
\* notification delivered inside it whose record is still in a listener's hand.
C5_SingleSessionExport ==
    (AllWritten /\ hist.sessions = 1 /\ ~hist.stopIdle)
      => /\ fs[filename].lines = Rendered(events)
         /\ \A k \in DOMAIN etags : etags[k].rec /\ etags[k].sess = 1
         /\ \A j, k \in DOMAIN etags : j < k => etags[j].id < etags[k].id
         /\ \A i \in DOMAIN listeners :
              listeners[i].data.some => ~listeners[i].tag.rec

\* C6: two consecutive sessions with different task names: the file written
\* by the stop of the second session is named after the second session and
\* holds no record of a notification delivered before the second start.
C6_NoCrossSession ==
    (/\ AllWritten /\ hist.sessions = 2 /\ ~hist.stopIdle /\ ~hist.reentrant
     /\ hist.newName /\ filename = Filename(hist.sessName))
      => /\ fs[filename].lines = Rendered(events)
         /\ \A k \in DOMAIN etags : etags[k].sess = 2

\* C7: in every session, the first or a later one, a qualifying notification
\* the OS delivers produces exactly one record in the buffer, never two.
C7_ExactlyOnce ==
    ~hist.reentrant
      => \A j, k \in DOMAIN etags : j # k => etags[j].id # etags[k].id

\* C8: is_recording is false initially, true from an accepted start to the
\* next stop and false from a stop to the next accepted start; no step of a
\* listener or of the export changes it.
C8_IsRecording ==
    is_recording = (hist.lastCall = "start")

\* C8 witness: a second session is recording although the first session's
\* listener has failed and an export has failed after creating its file.
C8_Witness ==
    /\ is_recording
    /\ pc = "ui"
    /\ hist.sessions = 2
    /\ hist.stops >= 1
    /\ listeners[1].st = "exited"
    /\ \E f \in FileNames : fs[f].exists /\ fs[f].lines = <<>>

\* C9: whenever stop() exports a session, the file name is "<t>_events.csv"
\* for the non-empty task name t the session was started with.
C9_ExportName ==
    (InExport /\ ~hist.stopIdle)
      => (hist.sessName # "" /\ filename = Filename(hist.sessName))

\* C10: the records an export writes are the buffer at one instant: while the
\* control thread holds the buffer for the export no append takes effect, and
\* the lines written so far are the header and the rendering of the first
\* idx - 1 records of that buffer, in insertion order.
C10_SnapshotConsistency ==
    /\ [](pc = "lines"
            => /\ idx \in 1..(Len(events) + 1)
               /\ fs[filename].lines = Rendered(SubSeq(events, 1, idx - 1)))
    /\ [][Exporting => events' = events]_vars

\* C10 witness: an export has written the first record of the buffer while a
\* listener with a record in hand waits for the mutex.
C10_Witness ==
    /\ pc = "lines"
    /\ idx = 2
    /\ \E i \in DOMAIN listeners : listeners[i].st = "waiting"

\* the callback of listener i is blocked in lock() (line 69)
Waiting(i) == Spawned(i) /\ listeners[i].st = "waiting"

\* the callback of listener i holds the guard (line 69)
Holding(i) == Spawned(i) /\ listeners[i].st = "holding"

\* the control thread is blocked in lock() (line 62 or line 96)
CtlWaiting == pc \in {"clear", "lock"}

\* the control thread holds the guard (line 62, lines 96-114)
CtlHolding == pc \in {"cleared", "header", "lines"}

\* C11: deadlock freedom on the buffer lock.  The mutex is held exactly by the
\* thread whose position is inside a critical section; it is only ever
\* acquired when free (no thread re-enters, no two threads hold it); the
\* holder can always take its next step, and a free mutex with a waiting
\* thread can be acquired (no state has every thread blocked); under fair
\* scheduling every held mutex is released and every waiting thread acquires.
C11_LockDeadlockFree ==
    /\ [](/\ (lock = Ctl) = CtlHolding
          /\ \A i \in ThreadIds : (lock = i) = Holding(i)
          /\ lock = Ctl => ENABLED ControlStep
          /\ \A i \in ThreadIds : lock = i => ENABLED ListenerPush(i)
          /\ (lock = Free /\ CtlWaiting) => ENABLED ControlStep
          /\ \A i \in ThreadIds : (lock = Free /\ Waiting(i)) => ENABLED ListenerLock(i))
    /\ [][(lock' # lock /\ lock' # Free) => lock = Free]_vars
    /\ (lock # Free) ~> (lock = Free)
    /\ CtlWaiting ~> CtlHolding
    /\ \A i \in ThreadIds : Waiting(i) ~> Holding(i)

\* C11 witness: one listener holds the mutex while the other listener and the
\* control thread (at the export's lock()) are both blocked on it.
C11_Witness ==
    /\ pc = "lock"
    /\ \E i, j \in ThreadIds : Holding(i) /\ Waiting(j)

\* a file operation of the export fails (lines 90-93, 97-100, 103-110)
ExportFails == FileCreate(FALSE) \/ WriteHeader(FALSE) \/ WriteLine(FALSE)

\* C12: an export I/O failure is non-fatal and not retried: the failing step
\* returns to the form without writing anything, is_recording is false after
\* it, the buffer is unchanged, the control thread no longer holds the mutex;
\* and while the control thread is in the form no file changes (no later line,
\* no second attempt), so the next click is served.
C12_ExportFailure ==
    /\ [][ExportFails
            => /\ pc' = "ui"
               /\ fs' = fs
               /\ events' = events
               /\ ~is_recording'
               /\ lock' # Ctl]_vars
    /\ [][pc = "ui" => fs' = fs]_vars

\* C12 witness: a header write has failed (the file exists and is empty), the
\* control thread is back in the form, a record is still in the buffer, and a
\* later start has been accepted.
C12_Witness ==
    /\ pc = "ui"
    /\ lock = Free
    /\ Len(events) = 1
    /\ hist.lastCall = "start"
    /\ hist.stops = 1
    /\ \E f \in FileNames : fs[f].exists /\ fs[f].lines = <<>>

\* C13: a subscription failure is silent: the listener thread exits, an
\* exited thread never moves again (it appends nothing), the failure changes
\* nothing of the controller (is_recording, position, buffer, mutex, files),
\* and a listener is added only by the spawn step of start_recording.
C13_SilentSubscriptionFailure ==
    /\ [][\A i \in ThreadIds :
            ListenerFail(i)
              => /\ listeners'[i].st = "exited"
                 /\ UNCHANGED <<is_recording, pc, events, lock, fs, task_name>>
                 /\ Len(listeners') = Len(listeners)]_vars
    /\ [][\A i \in ThreadIds :
            (Spawned(i) /\ ~Live(i)) => listeners'[i] = listeners[i]]_vars
    /\ [][Len(listeners') # Len(listeners) => pc = "spawn"]_vars

\* C13 witness: the only listener has exited during the session, and the stop
\* that followed has exported the record it appended before failing.
C13_Witness ==
    /\ pc = "lines"
    /\ idx = 2
    /\ ~hist.stopIdle
    /\ Len(listeners) = 1
    /\ LiveListeners = {}

\* the control thread is inside start_recording
InStart == pc \in {"clear", "cleared", "spawn"}

\* C14: "Create Task" with a non-empty name while already recording enters
\* start_recording with is_recording still true, is_recording stays true all
\* through start_recording, and the spawn adds one listener and leaves every
\* listener already running as it was, so that both push into the one buffer.
C14_ReentrantStart ==
    /\ [][(is_recording /\ task_name # "" /\ CreateTaskClicked)
            => (is_recording' /\ pc' = "clear" /\ UNCHANGED <<listeners, events>>)]_vars
    /\ [](InStart => is_recording)
    /\ [][SpawnListener
            => /\ Len(listeners') = Len(listeners) + 1
               /\ \A i \in DOMAIN listeners : listeners'[i] = listeners[i]
               /\ UNCHANGED <<events, is_recording>>]_vars

\* C14 witness: after a start made while recording (and no stop at all), the
\* two listeners are live and each has pushed its record of the same
\* notification into the buffer.
C14_Witness ==
    /\ hist.reentrant
    /\ hist.stops = 0
    /\ is_recording
    /\ Cardinality(LiveListeners) = 2
    /\ Len(events) = 2
    /\ etags[1].id = etags[2].id

\* C15: in the course of a start (here: one never made while recording), no
\* listener appends to the buffer between the call of start_recording and the
\* end of its clear, and the buffer is empty when the listener is spawned.
C15_ClearBeforeAppend ==
    /\ [][(~hist.reentrant /\ pc \in {"clear", "cleared"})
            => \A i \in ThreadIds : ~ListenerPush(i)]_vars
    /\ [](~hist.reentrant /\ pc = "spawn" => events = <<>>)

\* C16: stop_recording and its export change no listener thread; a live
\* listener ends only by listen returning an error; whatever is_recording is,
\* every hooked listener is handed every notification the OS emits and its
\* callback can run on it.
C16_ListenerOutlivesStop ==
    /\ [][(StopTaskClicked \/ (InExport /\ ControlStep)) => UNCHANGED listeners]_vars
    /\ [][\A i \in ThreadIds :
            (Spawned(i) /\ Live(i) /\ listeners'[i].st = "exited") => ListenerFail(i)]_vars
    /\ [][\A e \in OsEvents :
            OsEmit(e) => \A i \in DOMAIN listeners :
                           Hooked(listeners[i])
                             => listeners'[i].inbox
                                  = Append(listeners[i].inbox,
                                           [event |-> e, id |-> emitted + 1])]_vars
    /\ [](\A i \in ThreadIds :
            (Spawned(i) /\ listeners[i].st = "listening" /\ listeners[i].inbox # <<>>)
              => ENABLED ListenerCallback(i, 0))

\* C16 witness: start, stop, start; the listener of the second start has not
\* subscribed yet, and the buffer holds a record of a notification delivered
\* in the second session: the listener of the first start pushed it, after
\* the stop had returned.
C16_Witness ==
    /\ pc = "ui"
    /\ hist.sessions = 2
    /\ hist.stops = 1
    /\ ~hist.reentrant
    /\ Len(listeners) = 2
    /\ listeners[2].st = "spawned"
    /\ Len(events) = 1
    /\ etags[1].sess = 2

\* ------------------------------------------- process_event on its own
\* the notifications process_event is applied to: every kind of rdev::EventType,
\* named and Unknown(n) keys and buttons, several pointer positions
NormKeys == Keys \cup {[variant |-> "Return"], [variant |-> "Unknown", code |-> 255]}
NormButtons == Buttons \cup {[variant |-> "Right"], [variant |-> "Unknown", code |-> 4]}
NormCoords == Coords \cup {<<0, 0>>, <<-1, 5>>}

NormEvents ==
    RawEvents
    \cup {[type |-> "KeyPress", key |-> k] : k \in NormKeys}
    \cup {[type |-> "KeyRelease", key |-> k] : k \in NormKeys}
    \cup {[type |-> "ButtonPress", button |-> b] : b \in NormButtons}
    \cup {[type |-> "ButtonRelease", button |-> b] : b \in NormButtons}
    \cup {[type |-> "MouseMove", x |-> c[1], y |-> c[2]] : c \in NormCoords}

\* a listener of a session started under the name "a" is about to run its
\* callback on one notification; the session is still recording or has been
\* stopped (its export failing at File::create), and the name field holds
\* anything
NormInit ==
    /\ task_name \in TaskNames
    /\ is_recording \in BOOLEAN
    /\ events = <<>>
    /\ lock = Free
    /\ pc = "ui"
    /\ filename = ""
    /\ idx = 0
    /\ notice = ""
    /\ \E e \in NormEvents :
         listeners = <<[NewListener EXCEPT !.st = "listening",
                                           !.inbox = <<[event |-> e, id |-> 1]>>]>>
    /\ fs = [f \in FileNames |-> NoFile]
    /\ emitted = 1
    /\ etags = <<>>
    /\ hist = [sessions |-> 1, stops |-> IF is_recording THEN 0 ELSE 1,
               lastCall |-> IF is_recording THEN "start" ELSE "stop",
               reentrant |-> FALSE, stopIdle |-> FALSE, sessName |-> "a",
               newName |-> FALSE, dropped |-> {}]

NormNext ==
    \/ \E t \in Times : ListenerCallback(1, t)
    \/ ListenerLock(1)
    \/ ListenerPush(1)

NormSpec == NormInit /\ [][NormNext]_vars

\* the record the mapping table gives for a notification and a timestamp
Table(e, ts) ==
    IF e.type \in {"KeyPress", "KeyRelease"}
    THEN Some([event_type |-> "Keyboard", button_or_key |-> DebugFmt(e.key),
               action |-> IF e.type = "KeyPress" THEN "Pressed" ELSE "Released",
               position |-> "N/A", timestamp |-> ts])
    ELSE IF e.type \in {"ButtonPress", "ButtonRelease"}
    THEN Some([event_type |-> "Mouse", button_or_key |-> DebugFmt(e.button),
               action |-> IF e.type = "ButtonPress" THEN "Pressed" ELSE "Released",
               position |-> "N/A", timestamp |-> ts])
    ELSE IF e.type = "MouseMove"
    THEN Some([event_type |-> "Mouse", button_or_key |-> "Move", action |-> "Moved",
               position |-> "(" \o ToString(e.x) \o ", " \o ToString(e.y) \o ")",
               timestamp |-> ts])
    ELSE None

\* C17: whatever the shared state, the callback's run of process_event on a
\* notification with the clock reading t leaves the listener with exactly the
\* record of the mapping table (none for the other kinds, and then the
\* listener goes on listening), and changes nothing of the shared state.
C17_Normalizer ==
    [][\A t \in Times :
         ListenerCallback(1, t)
           => LET e == Head(listeners[1].inbox).event
                  r == Table(e, FormatTime(t))
              IN /\ listeners'[1].data = r
                 /\ listeners'[1].st = IF r.some THEN "waiting" ELSE "listening"
                 /\ UNCHANGED <<task_name, is_recording, events, lock, pc, fs>>]_vars

\* C17 witness: with recording stopped, the callback has turned a
\* pointer-moved notification at (-1, 5), clock reading 1, into its record.
C17_Witness ==
    /\ ~is_recording
    /\ listeners[1].st = "waiting"
    /\ listeners[1].data = Some(EventData("Mouse", "Move", "Moved", "(-1, 5)",
                                          "2024-01-01 10:00:01"))

\* --------------------------------------------------- save_to_csv on its own
\* the longest buffer exported
MaxRecords == 3

\* the records the buffer is filled with: a key, a pointer position, a button
ExportRecords ==
    {process_event([type |-> "KeyPress", key |-> [variant |-> "KeyA"]], 0).val,
     process_event([type |-> "MouseMove", x |-> 10, y |-> 20], 1).val,
     process_event([type |-> "ButtonRelease", button |-> [variant |-> "Left"]], 0).val}

Buffers == UNION {[1..n -> ExportRecords] : n \in 0..MaxRecords}

\* a session named "a" is recording, its listener has pushed the buffer and has
\* ended since; the directory holds no file of that name or one with other
\* contents
ExportInit ==
    /\ task_name = "a"
    /\ is_recording = TRUE
    /\ events \in Buffers
    /\ lock = Free
    /\ pc = "ui"
    /\ filename = ""
    /\ idx = 0
    /\ notice = ""
    /\ listeners = <<[NewListener EXCEPT !.st = "exited"]>>
    /\ \E old \in {NoFile, [exists |-> TRUE, lines |-> <<"kept", "from", "before">>]} :
         fs = [f \in FileNames |-> IF f = Filename("a") THEN old ELSE NoFile]
    /\ emitted = MaxEvents
    /\ etags = [k \in 1..Len(events) |-> [id |-> 1, sess |-> 1, rec |-> TRUE, by |-> 1]]
    /\ hist = [sessions |-> 1, stops |-> 0, lastCall |-> "start", reentrant |-> FALSE,
               stopIdle |-> FALSE, sessName |-> "a", newName |-> FALSE,
               dropped |-> {}]

ExportNext ==
    \/ StopTaskClicked
    \/ \E ok \in BOOLEAN : FileCreate(ok)
    \/ ExportLock
    \/ \E ok \in BOOLEAN : WriteHeader(ok)
    \/ \E ok \in BOOLEAN : WriteLine(ok)
    \/ ExportDone

ExportSpec == ExportInit /\ [][ExportNext]_vars

RECURSIVE Join(_, _)
\* the strings of a non-empty sequence, joined by a separator
Join(fields, sep) ==
    IF Len(fields) = 1
    THEN fields[1]
    ELSE fields[1] \o sep \o Join(Tail(fields), sep)

\* C18: once File::create has succeeded the file holds nothing of its previous
\* contents; the lines written then are the fixed header followed by one line
\* per record in list order, each the five fields joined by commas with the
\* identifier in parentheses; so a complete export of n records is the header
\* and n lines, and of the empty list the header alone.
C18_ExportRendering ==
    LET csv == [k \in 1..Len(events) |->
                  Join(<<events[k].event_type, "(" \o events[k].button_or_key \o ")",
                         events[k].action, events[k].position, events[k].timestamp>>,
                       ",")]
        file == <<"Event Type,Button/Key,Action,Position,Timestamp">> \o csv
    IN /\ pc \in {"lock", "header"} => fs[filename] = [exists |-> TRUE, lines |-> <<>>]
       /\ pc = "lines" => fs[filename].lines = SubSeq(file, 1, idx)
       /\ AllWritten => fs[filename].lines = file

\* C18 witness: the second complete export of a buffer of three records, the
\* first two different, into the file the first export wrote.
C18_Witness ==
    /\ AllWritten
    /\ hist.stops = 2
    /\ Len(events) = MaxRecords
    /\ events[1] # events[2]
    /\ Len(fs[filename].lines) = MaxRecords + 1

\* C19: every "Create Task" with a non-empty name goes on to the clear,
\* whatever is_recording is, and the clear leaves the buffer empty; a record
\* discarded by a clear is never in the buffer again, and a file grows only by
\* the export writing the header or the record of the buffer it has come to:
\* so no discarded record is in a later export.
C19_StartDiscards ==
    /\ [][(task_name # "" /\ CreateTaskClicked) => pc' = "clear"]_vars
    /\ [](pc = "clear" => ENABLED ClearLock \/ lock # Free)
    /\ [][ClearBuffer => events' = <<>>]_vars
    /\ [](\A k \in DOMAIN etags : RecordOf(etags[k]) \notin hist.dropped)
    /\ [][\A f \in FileNames :
            Len(fs'[f].lines) > Len(fs[f].lines)
              => /\ Exporting /\ f = filename
                 /\ fs'[f].lines = Append(fs[f].lines,
                                          IF pc = "header" THEN Header
                                          ELSE Line(events[idx]))]_vars

\* C19 witness: a start made while recording has discarded the record the
\* session had captured, and the stop that followed exported the header alone.
C19_Witness ==
    /\ hist.reentrant
    /\ hist.stops = 1
    /\ hist.dropped # {}
    /\ AllWritten
    /\ fs[filename].lines = <<Header>>

====
